---------------------------- MODULE Spec2Model ----------------------------
(***************************************************************************)
(* The ingestion pipeline of the sustainability dashboard backend:         *)
(*   services/scheduler.py              the APScheduler job and lifespan    *)
(*   services/data_service.py           seed_historical_data and the        *)
(*                                      synthetic fallback                  *)
(*   services/external_data_service.py  the two provider adapters, the      *)
(*                                      reconciliation and the upserts      *)
(*                                                                         *)
(* One step of the model is one await point of the code: a store call, an  *)
(* adapter call or the courtesy sleep.  Two coroutines can be alive at     *)
(* once: the task start_scheduler creates with asyncio.create_task ("boot")*)
(* and the instance APScheduler runs for the interval job ("job").         *)
(*                                                                         *)
(* Numbers are fixed point: emissions, per-capita figures, percentages and *)
(* energies are held in hundredths (the code rounds to 2 decimals),        *)
(* populations in millions of persons, time in days.                       *)
(***************************************************************************)
EXTENDS Integers, Sequences, FiniteSets, TLC

VARIABLES
    phase,        \* lifespan of main.py: "init", "up" (after start_scheduler), "down"
    schedRunning, \* scheduler.running
    ticks,        \* intervals elapsed since scheduler.start()
    skipped,      \* ticks APScheduler dropped (max_instances reached)
    started,      \* invocations of update_sustainability_data started so far
    overrun,      \* ghost: an interval elapsed while a run was in flight
    now,          \* datetime.utcnow(), in days
    owid,         \* the bulk provider: reachable or not, and the file it serves
    wb,           \* the per-indicator provider: per year, reachable or not, and its rows
    emissions,    \* db["emissions"]: (country, year) -> its documents in insertion order
    energy,       \* db["energy"]:    (country, year) -> its documents in insertion order
    metadata,     \* db["metadata"]:  documents in insertion order
    run,          \* per coroutine: position and locals of update_sustainability_data
    faults        \* store calls that have raised so far

vars == <<phase, schedRunning, ticks, skipped, started, overrun, now, owid, wb,
          emissions, energy, metadata, run, faults>>

----------------------------------------------------------------------------
(* Bounds of the model *)

\* intervals the model lets elapse
MaxTicks == 2
\* last day of the model's clock
MaxDay == 8
\* store calls that raise in one behaviour
MaxFaults == 1

----------------------------------------------------------------------------
(* Program constants *)

\* data_service.py:162  "year": {"$gte": 2020}
RecentFrom == 2020
\* external_data_service.py:356  "year": 2023
GateYear == 2023
\* external_data_service.py:358  timedelta(days=7)
FreshDays == 7
\* data_service.py:166  existing_real_data > 50.  The code's 50 is a quarter of
\* the 200 keys (50 target countries x 2020..2023) the count can reach; the
\* model has 2 such keys and keeps the gate strictly inside that range.
RealDataThreshold == 1
\* external_data_service.py:347  energy_estimates.get(country_code, 50)
DefaultEnergy == 50

\* external_data_service.py:369 / data_service.py:188  range(2010, 2024), cut
\* down to one year before RecentFrom and the year the second gate looks at
all_years == <<2019, 2023>>

\* external_data_service.py:30  self.target_countries (three of the fifty)
target_countries == {"United States", "Germany", "Greece"}

\* data_service.py:17  self.countries, in list order (three of the fifty-one)
countries == <<"United States", "Germany", "Greece">>

\* data_service.py:31  self.base_emissions (Mt); Greece is not in the table
base_emissions == [c \in {"United States", "Germany"} |->
                     IF c = "United States" THEN 5416 ELSE 759]

\* data_service.py:39  self.base_renewable, in hundredths of a percent; Greece
\* is not in the table
base_renewable == [c \in {"United States", "Germany", "Norway"} |->
                     CASE c = "United States" -> 1980
                       [] c = "Germany" -> 4110
                       [] c = "Norway" -> 9850]

\* external_data_service.py:43  self.iso3_to_name: keyed by two-letter codes
iso3_to_name == [k \in {"US", "DE"} |->
                   IF k = "US" THEN "United States" ELSE "Germany"]

\* external_data_service.py:335  energy_estimates (TWh), keyed the same way
energy_estimates == [k \in {"US", "DE"} |-> IF k = "US" THEN 4000 ELSE 600]

----------------------------------------------------------------------------
(* Optional values: Python's None and a present value *)

None == << >>
Some(v) == <<v>>
\* Python truthiness of an optional number: None and 0 are falsy
Truthy(o) == o # None /\ o[1] # 0

\* round(a / b) for b > 0, half away from zero on exact halves (Python rounds a
\* float's exact half by its binary expansion: the providers' figures of the
\* model stay off the halves)
RoundDiv(a, b) ==
    IF a >= 0 THEN (2 * a + b) \div (2 * b)
              ELSE 0 - ((2 * (0 - a) + b) \div (2 * b))

Max(a, b) == IF a >= b THEN a ELSE b

Min(a, b) == IF a <= b THEN a ELSE b


----------------------------------------------------------------------------
(* The document store (Motor collections), by what the calls do *)

\* a document matches {"data_source": {"$ne": "synthetic"}} also when it has
\* no data_source field
NotSynthetic(d) == "data_source" \notin DOMAIN d \/ d.data_source # "synthetic"

\* A collection is held as a function from the (country, year) pairs it has
\* documents for to those documents in insertion order.  No call the code makes
\* can tell the order between documents of different pairs.
EmptyCollection == << >>

\* the documents matching {"country": c, "year": y}, in insertion order
Matching(coll, c, y) == IF <<c, y>> \in DOMAIN coll THEN coll[<<c, y>>] ELSE << >>

\* all documents of a collection
Documents(coll) == UNION {{coll[k][i] : i \in 1..Len(coll[k])} : k \in DOMAIN coll}

\* a "$set" that is not atomic: the document is left with its old updated_at
SetFields_torn(old, rec) ==
    [f \in DOMAIN old \cup DOMAIN rec |->
        IF f \in DOMAIN rec /\ ~(f = "updated_at" /\ f \in DOMAIN old) THEN rec[f] ELSE old[f]]

\* {"$set": rec}: the fields of rec are written, the others are left alone
SetFields(old, rec) ==
    [f \in DOMAIN old \cup DOMAIN rec |-> IF f \in DOMAIN rec THEN rec[f] ELSE old[f]]

\* collection.update_one({"country": .., "year": ..}, {"$set": rec}, upsert=True):
\* the first matching document is updated, or rec is inserted
update_one(coll, rec) ==
    LET k == <<rec.country, rec.year>>
    IN  IF k \in DOMAIN coll
        THEN [coll EXCEPT ![k] = [@ EXCEPT ![1] = SetFields(@, rec)]]
        ELSE coll @@ (k :> <<rec>>)

\* collection.insert_one(rec): always a new document
insert_one(coll, rec) ==
    LET k == <<rec.country, rec.year>>
    IN  IF k \in DOMAIN coll
        THEN [coll EXCEPT ![k] = Append(@, rec)]
        ELSE coll @@ (k :> <<rec>>)

\* emissions_collection.count_documents({"year": {"$gte": 2020},
\*                                       "data_source": {"$ne": "synthetic"}})
count_documents(coll) ==
    LET n[K \in SUBSET DOMAIN coll] ==
            IF K = {} THEN 0
            ELSE LET k == CHOOSE x \in K : TRUE
                 IN  n[K \ {k}]
                     + Cardinality({i \in 1..Len(coll[k]) :
                                      coll[k][i].year >= RecentFrom /\ NotSynthetic(coll[k][i])})
    IN  n[DOMAIN coll]

\* emissions_collection.find_one({"year": 2023, "data_source": {"$ne": "synthetic"},
\*                                "updated_at": {"$gte": utcnow() - 7 days}}) is not None
find_one(coll, t) ==
    \E d \in Documents(coll) :
        /\ d.year = GateYear
        /\ NotSynthetic(d)
        /\ d.updated_at >= t - FreshDays

\* metadata_collection.update_one({"type": "data_source"}, {"$set": ..}, upsert=True);
\* db["metadata"] is held as its documents in insertion order
update_metadata(coll, t) ==
    LET rec == [type |-> "data_source",
                primary_source |-> "Our World in Data (CO2), World Bank (Energy)",
                last_updated |-> t,
                co2_source |-> "Our World in Data GitHub Repository",
                energy_source |-> "World Bank Open Data API",
                coverage_years |-> <<all_years[1], all_years[Len(all_years)]>>,
                countries_count |-> Cardinality(target_countries)]
        hit == {i \in 1..Len(coll) : coll[i].type = "data_source"}
    IN  IF hit = {} THEN Append(coll, rec)
        ELSE [coll EXCEPT ![CHOOSE m \in hit : \A n \in hit : m <= n] = SetFields(@, rec)]

----------------------------------------------------------------------------
(* Reconciliation: source rows to stored records *)

\* seed_real_historical_data, lines 394-395: a row with neither figure is skipped
SkipsRow(row) == ~Truthy(row.co2_total) /\ ~Truthy(row.co2_per_capita)

\* the record of a bulk row without lines 396-402: nothing is derived
EmissionRecord_underived(row, t) ==
    [country |-> row.country,
     year |-> row.year,
     co2_emissions |-> IF Truthy(row.co2_total) THEN row.co2_total[1] ELSE 0,
     population |-> IF Truthy(row.population) THEN row.population[1] ELSE 0,
     gdp |-> IF Truthy(row.gdp) THEN row.gdp[1] ELSE 0,
     co2_per_capita |-> IF Truthy(row.co2_per_capita) THEN row.co2_per_capita[1] ELSE 0,
     created_at |-> t,
     updated_at |-> t,
     data_source |-> "our_world_in_data"]

\* seed_real_historical_data, lines 388-417: the emissions record of a bulk row
EmissionRecord(row, t) ==
    LET hasPop == Truthy(row.population)
        pc  == IF ~Truthy(row.co2_per_capita) /\ Truthy(row.co2_total) /\ hasPop
               THEN Some(RoundDiv(row.co2_total[1], row.population[1]))
               ELSE row.co2_per_capita
        tot == IF ~Truthy(row.co2_total) /\ Truthy(row.co2_per_capita) /\ hasPop
               THEN Some(row.co2_per_capita[1] * row.population[1])
               ELSE row.co2_total
    IN  [country |-> row.country,
         year |-> row.year,
         co2_emissions |-> IF Truthy(tot) THEN tot[1] ELSE 0,
         population |-> IF hasPop THEN row.population[1] ELSE 0,
         gdp |-> IF Truthy(row.gdp) THEN row.gdp[1] ELSE 0,
         co2_per_capita |-> IF Truthy(pc) THEN pc[1] ELSE 0,
         created_at |-> t,
         updated_at |-> t,
         data_source |-> "our_world_in_data"]

\* estimate_total_energy_consumption(country_code), TWh
estimate_total_energy_consumption(code) ==
    IF code \in DOMAIN energy_estimates THEN energy_estimates[code] ELSE DefaultEnergy

\* the energy record of one row with line 298 left out: the fossil share is
\* not reduced by the renewable one
EnergyRecord_unbalanced(item, year, t) ==
    LET code == item.countryiso3code[1]
        total == estimate_total_energy_consumption(code)
        raw == item.value[1]
    IN  [country |-> IF code \in DOMAIN iso3_to_name THEN iso3_to_name[code] ELSE code,
         year |-> year,
         renewable_percentage |-> RoundDiv(raw, 10),
         total_energy_consumption |-> 100 * total,
         renewable_energy |-> RoundDiv(total * raw, 1000),
         fossil_fuel_energy |-> 100 * total,
         created_at |-> t,
         updated_at |-> t]

\* update_energy_with_real_data, lines 290-311: the energy record of one row
\* (record.model_dump(exclude={"id"}): no data_source field).  The provider's
\* value is held in thousandths of a percent; the energies are computed from
\* it as it came and each stored figure is rounded to 2 decimals on its own.
EnergyRecord(item, year, t) ==
    LET code == item.countryiso3code[1]
        total == estimate_total_energy_consumption(code)
        raw == item.value[1]
    IN  [country |-> IF code \in DOMAIN iso3_to_name THEN iso3_to_name[code] ELSE code,
         year |-> year,
         renewable_percentage |-> RoundDiv(raw, 10),
         total_energy_consumption |-> 100 * total,
         renewable_energy |-> RoundDiv(total * raw, 1000),
         fossil_fuel_energy |-> RoundDiv(100000 * total - total * raw, 1000),
         created_at |-> t,
         updated_at |-> t]

\* EnergyRecord(country=None, ...) fails pydantic validation: country is a str
RaisesOnRow(item) == item.value # None /\ item.countryiso3code = None

\* update_energy_with_real_data, lines 286-311: records_to_upsert of one year's rows
RECURSIVE records_to_upsert(_, _, _)
records_to_upsert(items, year, t) ==
    IF items = << >> THEN << >>
    ELSE IF Head(items).value = None THEN records_to_upsert(Tail(items), year, t)
    ELSE <<EnergyRecord(Head(items), year, t)>> \o records_to_upsert(Tail(items), year, t)

----------------------------------------------------------------------------
(* The synthetic generator of the fallback *)

\* the draws of random.uniform / random.randint of one record: growth per year
\* in thousandths, jitter in tenths, population in millions, gdp and total
\* energy in whole units, the baselines drawn for a country that is not in
\* the tables (Mt; hundredths of a percent), and the variation of the
\* single-year update in hundredths
Draws == {[growth |-> 30, jitter |-> 11, population |-> 1400, gdp |-> 25000, energy |-> 4000,
           base_emission |-> 1000, base_renewable |-> 4000, variation |-> 105]}

\* self.base_emissions.get(country, random.uniform(50, 1000))
base_emission(country, d) ==
    IF country \in DOMAIN base_emissions THEN base_emissions[country] ELSE d.base_emission

\* self.base_renewable.get(country, random.uniform(5, 40))
base_renewable_of(country, d) ==
    IF country \in DOMAIN base_renewable THEN base_renewable[country] ELSE d.base_renewable

\* _seed_synthetic_data, lines 193-213
SyntheticEmission(country, year, d, t) ==
    LET raw == base_emission(country, d) * (1000 + (year - 2010) * d.growth) * d.jitter
    IN  [country |-> country,
         year |-> year,
         co2_emissions |-> RoundDiv(raw, 100),
         population |-> d.population,
         gdp |-> 100 * d.gdp,
         co2_per_capita |-> RoundDiv(raw, 100 * d.population),
         created_at |-> t,
         updated_at |-> t,
         data_source |-> "synthetic"]

\* the energy record of the backfill without the min(100, ..) of line 224
SyntheticEnergy_unclamped(country, year, d, t) ==
    LET raw == RoundDiv(base_renewable_of(country, d)
                          * (1000 + (year - 2010) * d.growth) * d.jitter, 1000)
    IN  [country |-> country,
         year |-> year,
         renewable_percentage |-> RoundDiv(raw, 10),
         total_energy_consumption |-> 100 * d.energy,
         renewable_energy |-> RoundDiv(d.energy * raw, 1000),
         fossil_fuel_energy |-> RoundDiv(100000 * d.energy - d.energy * raw, 1000),
         created_at |-> t,
         updated_at |-> t,
         data_source |-> "synthetic"]

\* _seed_synthetic_data, lines 220-240; the percentage before rounding is
\* carried in thousandths of a percent
SyntheticEnergy(country, year, d, t) ==
    LET raw == Min(100000, RoundDiv(base_renewable_of(country, d)
                                     * (1000 + (year - 2010) * d.growth) * d.jitter, 1000))
    IN  [country |-> country,
         year |-> year,
         renewable_percentage |-> RoundDiv(raw, 10),
         total_energy_consumption |-> 100 * d.energy,
         renewable_energy |-> RoundDiv(d.energy * raw, 1000),
         fossil_fuel_energy |-> RoundDiv(100000 * d.energy - d.energy * raw, 1000),
         created_at |-> t,
         updated_at |-> t,
         data_source |-> "synthetic"]

\* update_energy_data, lines 118-135: the record of the single-year update
\* (current_year = 2023; no data_source)
UpdateEnergyRecord(country, d, t) ==
    LET raw == Max(0, Min(100000, RoundDiv(base_renewable_of(country, d) * d.variation, 10)))
    IN  [country |-> country,
         year |-> 2023,
         renewable_percentage |-> RoundDiv(raw, 10),
         total_energy_consumption |-> 100 * d.energy,
         renewable_energy |-> RoundDiv(d.energy * raw, 1000),
         fossil_fuel_energy |-> RoundDiv(100000 * d.energy - d.energy * raw, 1000),
         created_at |-> t,
         updated_at |-> t]

\* the pairs of a generator that leaves out the countries without a baseline
\* in self.base_emissions
fallback_keys_tabled ==
    LET tabled == SelectSeq(countries, LAMBDA c : c \in DOMAIN base_emissions)
    IN  [i \in 1..(Len(all_years) * Len(tabled)) |->
            [year |-> all_years[((i - 1) \div Len(tabled)) + 1],
             country |-> tabled[((i - 1) % Len(tabled)) + 1]]]

\* the (year, country) pairs in the order of the nested loops of lines 191-192
fallback_keys ==
    [i \in 1..(Len(all_years) * Len(countries)) |->
        [year |-> all_years[((i - 1) \div Len(countries)) + 1],
         country |-> countries[((i - 1) % Len(countries)) + 1]]]


----------------------------------------------------------------------------
(* The two providers *)

\* a line of the bulk CSV; a field is None when its cell is empty
RawRow(c, y, co2, pc, pop, gdp, bad) ==
    [country |-> c, year |-> y, co2 |-> co2, co2_per_capita |-> pc,
     population |-> pop, gdp |-> gdp, malformed |-> bad]

\* the files the bulk provider can serve
OwidFileA ==
    << RawRow("United States", 2023, Some(500000), None, Some(330), None, FALSE),
       RawRow("France", 2023, Some(30000), Some(450), Some(67), None, FALSE),
       RawRow("Germany", 2023, None, Some(850), Some(83), Some(4500000), FALSE),
       RawRow("Germany", 2019, Some(70000), Some(840), None, None, FALSE) >>

OwidFileB ==
    << RawRow("Germany", 2023, Some(0), None, Some(83), None, FALSE),
       RawRow("United States", 2023, Some(480000), Some(1450), Some(331), None, FALSE),
       RawRow("United States", 2019, Some(510000), None, None, None, TRUE),
       RawRow("United States", 2009, Some(520000), None, Some(300), None, FALSE),
       RawRow("Germany", 2019, None, None, Some(82), None, FALSE),
       RawRow("Germany", 2019, Some(70100), None, None, None, FALSE) >>

OwidFileC ==
    << RawRow("Germany", 2019, None, Some(840), None, None, FALSE) >>

\* fetch_owid_co2_data, lines 87-105: the record of an accepted line
OwidRecord(r) ==
    [country |-> r.country, year |-> r.year, co2_total |-> r.co2,
     co2_per_capita |-> r.co2_per_capita, population |-> r.population, gdp |-> r.gdp]

\* the reading of the file with the try of lines 82-109 around the loop
\* instead of inside it: a malformed line ends the reading
RECURSIVE RowsOfYear_aborting(_, _)
RowsOfYear_aborting(file, y) ==
    IF file = << >> \/ Head(file).malformed THEN << >>
    ELSE LET r == Head(file)
             keep == /\ r.year = y
                     /\ r.country \in target_countries
                     /\ (r.co2 # None \/ r.co2_per_capita # None)
         IN  (IF keep THEN <<OwidRecord(r)>> ELSE << >>)
                 \o RowsOfYear_aborting(Tail(file), y)

\* fetch_owid_co2_data, lines 80-109: the lines kept for one year, in file order
RECURSIVE RowsOfYear(_, _)
RowsOfYear(file, y) ==
    IF file = << >> THEN << >>
    ELSE LET r == Head(file)
             keep == /\ ~r.malformed
                     /\ r.year = y
                     /\ r.country \in target_countries
                     /\ (r.co2 # None \/ r.co2_per_capita # None)
         IN  (IF keep THEN <<OwidRecord(r)>> ELSE << >>) \o RowsOfYear(Tail(file), y)

\* the bulk adapter with data_by_year keyed in descending order of year
fetch_owid_co2_data_descending(provider) ==
    IF provider.reachable
    THEN [i \in 1..Len(all_years) |->
             [year |-> all_years[Len(all_years) + 1 - i],
              rows |-> RowsOfYear(provider.file, all_years[Len(all_years) + 1 - i])]]
    ELSE << >>

\* fetch_owid_co2_data: data_by_year, a dict with one entry per target year in
\* the order of target_years; {} when the provider cannot be reached
fetch_owid_co2_data(provider) ==
    IF provider.reachable
    THEN [i \in 1..Len(all_years) |->
             [year |-> all_years[i], rows |-> RowsOfYear(provider.file, all_years[i])]]
    ELSE << >>

\* seed_real_historical_data, lines 379-386: the rows in the order the nested
\* loops visit them (a year without rows is skipped)
RECURSIVE RowsInOrder(_)
RowsInOrder(data) ==
    IF data = << >> THEN << >> ELSE Head(data).rows \o RowsInOrder(Tail(data))

\* an item of the per-indicator JSON: the code may be missing, the value null;
\* a value is in thousandths of a percent
Item(code, value) == [countryiso3code |-> code, value |-> value]

\* the answer of the per-indicator provider to the call for one year
Answer(reachable, rows) == [reachable |-> reachable, rows |-> rows]

\* what the two providers can do during one behaviour: the bulk provider serves
\* a file or cannot be reached; the per-indicator provider answers the call for
\* a year with rows or cannot be reached for it
Upstream ==
    << [owid |-> [reachable |-> TRUE, file |-> OwidFileA],
        wb |-> [y \in {2019, 2023} |->
                  IF y = 2019 THEN Answer(TRUE, << Item(Some("USA"), Some(12346)) >>)
                  ELSE Answer(TRUE, << Item(Some("USA"), Some(20000)),
                                       Item(Some("DEU"), None),
                                       Item(Some("DE"), Some(41004)) >>)]],
       [owid |-> [reachable |-> TRUE, file |-> OwidFileB],
        wb |-> [y \in {2019, 2023} |->
                  IF y = 2019 THEN Answer(FALSE, << >>)
                  ELSE Answer(TRUE, << Item(Some("DEU"), Some(120000)),
                                       Item(None, Some(5000)) >>)]],
       [owid |-> [reachable |-> TRUE, file |-> OwidFileC],
        wb |-> [y \in {2019, 2023} |->
                  IF y = 2019 THEN Answer(FALSE, << >>)
                  ELSE Answer(TRUE, << Item(Some("DEU"), Some(120003)),
                                       Item(Some("USA"), Some(0 - 5002)) >>)]],
       [owid |-> [reachable |-> FALSE, file |-> << >>],
        wb |-> [y \in {2019, 2023} |-> Answer(FALSE, << >>)]] >>

\* fetch_world_bank_data: the rows of the year, [] when the call fails
fetch_world_bank_data(provider, year) ==
    IF provider[year].reachable THEN provider[year].rows ELSE << >>


----------------------------------------------------------------------------
(* The coroutines *)

\* "boot": asyncio.create_task(update_sustainability_data()) of start_scheduler;
\* "job":  the instance APScheduler runs for the interval job
Slots == {"boot", "job"}

\* a coroutine that is not running; the ghost fields describe the run in the slot:
\*   gate       what the staleness checks decided
\*   gateCount  the count of recent non-synthetic records when the run was at its gate
\*   gateFresh  whether the metadata's last_updated was inside the window then
\*   called     an adapter call was made;  wrote  a store write succeeded
\*   owidDown   the bulk call found the provider unreachable
\*   wbReached  some per-indicator call reached the provider
\*   exc        the exception that sent seed_historical_data to its except branch
\*   fbDone     _seed_synthetic_data has completed
\*   raised     the exception update_sustainability_data caught
Idle ==
    [pc |-> "idle", queue |-> << >>, yi |-> 1, k |-> 1,
     gate |-> "none", gateCount |-> 0, gateFresh |-> FALSE,
     called |-> FALSE, wrote |-> FALSE, owidDown |-> FALSE, wbReached |-> FALSE,
     exc |-> "none", fbDone |-> FALSE, raised |-> "none"]

\* update_sustainability_data entered: seed_historical_data is at its count
Entered == [Idle EXCEPT !.pc = "count"]

InFlight(p) == run[p].pc \notin {"idle", "done"}

\* whether the metadata record's last_updated is inside the freshness window
MetaFresh ==
    \E i \in 1..Len(metadata) : metadata[i].last_updated >= now - FreshDays

\* seed_historical_data, lines 175-179: the except branch, entered with exception e
Except(r, e) == [r EXCEPT !.pc = "fb_emissions", !.k = 1, !.queue = << >>, !.exc = e]

\* update_sustainability_data without the except of lines 23-24, in a
\* scheduler that does not survive a job's exception: a run that raises does
\* not come to its end
Return_escaping(r, e) ==
    [r EXCEPT !.pc = IF e \in {"none", "cancelled"} THEN "done" ELSE "crashed",
              !.queue = << >>, !.yi = 1, !.k = 1, !.raised = e]

\* the run returns or raises into update_sustainability_data, which logs
Return(r, e) == [r EXCEPT !.pc = "done", !.queue = << >>, !.yi = 1, !.k = 1, !.raised = e]

\* a store call raises (the database does not answer it)
Fault == faults < MaxFaults /\ faults' = faults + 1

----------------------------------------------------------------------------
(* Initial state: the process has been constructed, main.py's lifespan has  *)
(* not run yet, the database is empty.                                      *)

Init ==
    /\ phase = "init"
    /\ schedRunning = FALSE
    /\ ticks = 0
    /\ skipped = 0
    /\ started = 0
    /\ overrun = FALSE
    /\ now = 0
    /\ \E i \in DOMAIN Upstream : owid = Upstream[i].owid /\ wb = Upstream[i].wb
    /\ emissions = EmptyCollection
    /\ energy = EmptyCollection
    /\ metadata = << >>
    /\ run = [p \in Slots |-> Idle]
    /\ faults = 0

----------------------------------------------------------------------------
(* scheduler.py and main.py *)

\* start_scheduler without line 46: no task is created at startup
InitialUpdate_absent == Idle

\* what start_scheduler leaves in the "boot" slot: line 46 creates the task
InitialUpdate == Entered

\* lifespan startup -> start_scheduler(): add_job with an IntervalTrigger (first
\* fire one interval from now), scheduler.start(), and create_task for the
\* initial update, which APScheduler does not know of
start_scheduler ==
    /\ phase = "init"
    /\ phase' = "up"
    /\ schedRunning' = TRUE
    /\ run' = [run EXCEPT !["boot"] = InitialUpdate]
    /\ started' = started + Cardinality({p \in Slots : run'[p].pc # "idle"})
    /\ UNCHANGED <<ticks, skipped, overrun, now, owid, wb, emissions, energy, metadata, faults>>

\* the job's instance limit: add_job is called without max_instances, so
\* APScheduler's default of 1 applies to the instances it started itself
JobBusy == InFlight("job")

\* the interval elapses: APScheduler submits update_sustainability_data unless
\* an instance of the job is still running, in which case the run is skipped
Tick ==
    /\ phase = "up"
    /\ schedRunning
    /\ ticks < MaxTicks
    /\ ticks' = ticks + 1
    /\ overrun' = (overrun \/ \E p \in Slots : InFlight(p))
    /\ IF JobBusy
       THEN /\ skipped' = skipped + 1
            /\ UNCHANGED <<run, started>>
       ELSE /\ run' = [run EXCEPT !["job"] = Entered]
            /\ started' = started + 1
            /\ UNCHANGED skipped
    /\ UNCHANGED <<phase, schedRunning, now, owid, wb, emissions, energy, metadata, faults>>

\* lifespan shutdown -> stop_scheduler(): scheduler.shutdown() cancels the job's
\* running instance; the task created at startup is not the scheduler's
stop_scheduler ==
    /\ phase = "up"
    /\ phase' = "down"
    /\ schedRunning' = FALSE
    /\ run' = [run EXCEPT !["job"] =
                  IF InFlight("job") THEN Return(@, "cancelled") ELSE @]
    /\ UNCHANGED <<ticks, skipped, started, overrun, now, owid, wb, emissions, energy,
                   metadata, faults>>

\* scheduler.get_jobs(): the job start_scheduler has added, with the next
\* fire time of its IntervalTrigger (the number of the interval it fires at;
\* an interval trigger without an end date always has a next one)
get_jobs ==
    IF phase = "init" THEN << >>
    ELSE << [id |-> "sustainability_data_update",
             name |-> "Update Sustainability Data",
             next_run_time |-> Some(ticks + 1)] >>

\* the entry of the status for one job, lines 65-69
JobStatus(job) ==
    [id |-> job.id,
     name |-> job.name,
     next_run |-> IF job.next_run_time # None THEN job.next_run_time ELSE None]

\* get_scheduler_status without the condition of line 71: the jobs are listed
\* whether the scheduler runs or not
get_scheduler_status_unguarded ==
    [running |-> schedRunning,
     jobs |-> [i \in 1..Len(get_jobs) |-> JobStatus(get_jobs[i])]]

\* get_scheduler_status, lines 60-72
get_scheduler_status ==
    [running |-> schedRunning,
     jobs |-> IF schedRunning
              THEN [i \in 1..Len(get_jobs) |-> JobStatus(get_jobs[i])]
              ELSE << >>]

\* wall-clock time passes: a freshness window and a day at a time
ClockStep == FreshDays + 1

\* The clock moves between runs only: a run takes minutes (one download, two
\* dozen requests a second apart), the window it is compared with is a week.
\* Days are counted from the start of the application.
TimePasses ==
    /\ phase # "init"
    /\ now + ClockStep <= MaxDay
    /\ \A p \in Slots : ~InFlight(p)
    /\ now' = now + ClockStep
    /\ UNCHANGED <<phase, schedRunning, ticks, skipped, started, overrun, owid, wb,
                   emissions, energy, metadata, run, faults>>

----------------------------------------------------------------------------
(* data_service.py and external_data_service.py: one action per await.     *)
(* A store call either answers or raises (Fault); an adapter call reaches   *)
(* its provider or not, as the provider's state says.                       *)

Env == <<phase, schedRunning, ticks, skipped, started, overrun, now, owid, wb>>

\* seed_historical_data without the return of lines 166-168: whatever the
\* count, the run goes on to the fetch
seed_historical_data_ungated(r, ok) ==
    LET n == count_documents(emissions)
        seen == [r EXCEPT !.gateCount = n, !.gateFresh = MetaFresh]
    IN  IF ~ok THEN Except([seen EXCEPT !.gate = "error"], "count")
        ELSE [seen EXCEPT !.pc = "owid", !.gate = "proceed"]

\* seed_historical_data, lines 161-168: the count and the first gate
seed_historical_data(r, ok) ==
    LET n == count_documents(emissions)
        seen == [r EXCEPT !.gateCount = n, !.gateFresh = MetaFresh]
    IN  IF ~ok THEN Except([seen EXCEPT !.gate = "error"], "count")
        ELSE IF n > RealDataThreshold
        THEN Return([seen EXCEPT !.gate = "skip_count"], "none")
        ELSE [seen EXCEPT !.pc = "find"]

CountStep(p) ==
    /\ run[p].pc = "count"
    /\ \/ /\ run' = [run EXCEPT ![p] = seed_historical_data(@, TRUE)]
          /\ UNCHANGED faults
       \/ /\ Fault
          /\ run' = [run EXCEPT ![p] = seed_historical_data(@, FALSE)]
    /\ UNCHANGED <<Env, emissions, energy, metadata>>

\* seed_real_historical_data without the return of lines 361-363: whatever
\* find_one gives, the run goes on to the fetch
seed_real_historical_data_ungated(r, ok) ==
    IF ~ok THEN Except([r EXCEPT !.gate = "error"], "find")
    ELSE [r EXCEPT !.pc = "owid", !.gate = "proceed"]

\* seed_real_historical_data, lines 355-363: the second gate
seed_real_historical_data(r, ok) ==
    IF ~ok THEN Except([r EXCEPT !.gate = "error"], "find")
    ELSE IF find_one(emissions, now)
    THEN Return([r EXCEPT !.gate = "skip_recent"], "none")
    ELSE [r EXCEPT !.pc = "owid", !.gate = "proceed"]

FindStep(p) ==
    /\ run[p].pc = "find"
    /\ \/ /\ run' = [run EXCEPT ![p] = seed_real_historical_data(@, TRUE)]
          /\ UNCHANGED faults
       \/ /\ Fault
          /\ run' = [run EXCEPT ![p] = seed_real_historical_data(@, FALSE)]
    /\ UNCHANGED <<Env, emissions, energy, metadata>>

\* seed_real_historical_data, lines 373-384: the bulk fetch; a provider that
\* cannot be reached gives {} and the loop over it does nothing
AfterOwid(r) ==
    LET rows == RowsInOrder(fetch_owid_co2_data(owid))
    IN  [r EXCEPT !.called = TRUE,
                  !.owidDown = ~owid.reachable,
                  !.queue = rows,
                  !.pc = IF rows = << >> THEN "wb" ELSE "emissions"]

FetchOwid(p) ==
    /\ run[p].pc = "owid"
    /\ run' = [run EXCEPT ![p] = AfterOwid(@)]
    /\ UNCHANGED <<Env, emissions, energy, metadata, faults>>

\* the coroutine after one row of the emissions loop
NextRow(r, wrote) ==
    [r EXCEPT !.queue = Tail(@),
              !.wrote = @ \/ wrote,
              !.pc = IF Len(r.queue) = 1 THEN "wb" ELSE "emissions"]

\* seed_real_historical_data, lines 386-428: one row; the try around it logs a
\* failed update_one and goes on
EmissionsRow(p) ==
    /\ run[p].pc = "emissions"
    /\ LET row == Head(run[p].queue)
       IN  \/ /\ SkipsRow(row)
              /\ run' = [run EXCEPT ![p] = NextRow(@, FALSE)]
              /\ UNCHANGED <<emissions, faults>>
           \/ /\ ~SkipsRow(row)
              /\ emissions' = update_one(emissions, EmissionRecord(row, now))
              /\ run' = [run EXCEPT ![p] = NextRow(@, TRUE)]
              /\ UNCHANGED faults
           \/ /\ ~SkipsRow(row)
              /\ Fault
              /\ run' = [run EXCEPT ![p] = NextRow(@, FALSE)]
              /\ UNCHANGED emissions
    /\ UNCHANGED <<Env, energy, metadata>>

\* the call for one year without line 325: after a year with no record to
\* upsert the next call follows at once
AfterWorldBank_undelayed(r) ==
    LET year == all_years[r.yi]
        data == fetch_world_bank_data(wb, year)
        called == [r EXCEPT !.called = TRUE, !.wbReached = @ \/ wb[year].reachable]
    IN  IF \E i \in 1..Len(data) : RaisesOnRow(data[i])
        THEN Except(called, "energy_row")
        ELSE LET recs == records_to_upsert(data, year, now)
             IN  IF recs = << >>
                 THEN [called EXCEPT !.yi = @ + 1,
                                     !.pc = IF r.yi = Len(all_years)
                                            THEN "metadata" ELSE "wb"]
                 ELSE [called EXCEPT !.queue = recs, !.pc = "energy"]

\* the call for one year with an adapter that raises instead of returning []
\* (lines 163-165 of fetch_world_bank_data left out)
AfterWorldBank_raising(r) ==
    LET year == all_years[r.yi]
        data == fetch_world_bank_data(wb, year)
        called == [r EXCEPT !.called = TRUE, !.wbReached = @ \/ wb[year].reachable]
    IN  IF ~wb[year].reachable \/ \E i \in 1..Len(data) : RaisesOnRow(data[i])
        THEN Except(called, "energy_row")
        ELSE LET recs == records_to_upsert(data, year, now)
             IN  [called EXCEPT !.queue = recs,
                                !.pc = IF recs = << >> THEN "sleep" ELSE "energy"]

\* update_energy_with_real_data, lines 278-311: the call for one year and the
\* records built from its rows; a row that cannot be built raises out of the loop
AfterWorldBank(r) ==
    LET year == all_years[r.yi]
        data == fetch_world_bank_data(wb, year)
        called == [r EXCEPT !.called = TRUE, !.wbReached = @ \/ wb[year].reachable]
    IN  IF \E i \in 1..Len(data) : RaisesOnRow(data[i])
        THEN Except(called, "energy_row")
        ELSE LET recs == records_to_upsert(data, year, now)
             IN  [called EXCEPT !.queue = recs,
                                !.pc = IF recs = << >> THEN "sleep" ELSE "energy"]

FetchWorldBank(p) ==
    /\ run[p].pc = "wb"
    /\ run' = [run EXCEPT ![p] = AfterWorldBank(@)]
    /\ UNCHANGED <<Env, emissions, energy, metadata, faults>>

\* update_energy_with_real_data, lines 314-320: one upsert; a failure is not
\* caught in the loop and leaves through lines 327-329
EnergyUpsert(p) ==
    /\ run[p].pc = "energy"
    /\ \/ /\ energy' = update_one(energy, Head(run[p].queue))
          /\ run' = [run EXCEPT ![p].queue = Tail(@),
                                ![p].wrote = TRUE,
                                ![p].pc = IF Len(run[p].queue) = 1
                                          THEN "sleep" ELSE "energy"]
          /\ UNCHANGED faults
       \/ /\ Fault
          /\ run' = [run EXCEPT ![p] = Except(@, "energy_upsert")]
          /\ UNCHANGED energy
    /\ UNCHANGED <<Env, emissions, metadata>>

\* update_energy_with_real_data, line 325: asyncio.sleep(1), then the next year
Sleep(p) ==
    /\ run[p].pc = "sleep"
    /\ run' = [run EXCEPT ![p].yi = @ + 1,
                          ![p].pc = IF run[p].yi = Len(all_years) THEN "metadata" ELSE "wb"]
    /\ UNCHANGED <<Env, emissions, energy, metadata, faults>>

\* seed_real_historical_data, lines 437-452: the metadata record
UpdateMetadata(p) ==
    /\ run[p].pc = "metadata"
    /\ \/ /\ metadata' = update_metadata(metadata, now)
          /\ run' = [run EXCEPT ![p] = Return([@ EXCEPT !.wrote = TRUE], "none")]
          /\ UNCHANGED faults
       \/ /\ Fault
          /\ run' = [run EXCEPT ![p] = Except(@, "metadata")]
          /\ UNCHANGED metadata
    /\ UNCHANGED <<Env, emissions, energy>>

\* a generator that writes with update_one(.., upsert=True) as the real pass
\* does
seed_write_upserting(coll, rec) == update_one(coll, rec)

\* how _seed_synthetic_data writes a record (line 215, line 242)
seed_write(coll, rec) == insert_one(coll, rec)

\* _seed_synthetic_data, lines 191-215: one emissions record; a failed write
\* leaves through lines 246-248 and replaces the exception being handled
FallbackEmissions(p) ==
    /\ run[p].pc = "fb_emissions"
    /\ LET key == fallback_keys[run[p].k]
           last == run[p].k = Len(fallback_keys)
       IN  \/ /\ \E d \in Draws :
                    emissions' = seed_write(emissions,
                                            SyntheticEmission(key.country, key.year, d, now))
              /\ run' = [run EXCEPT ![p].wrote = TRUE,
                                    ![p].k = IF last THEN 1 ELSE @ + 1,
                                    ![p].pc = IF last THEN "fb_energy" ELSE "fb_emissions"]
              /\ UNCHANGED faults
           \/ /\ Fault
              /\ run' = [run EXCEPT ![p] = Return(@, "fallback")]
              /\ UNCHANGED emissions
    /\ UNCHANGED <<Env, energy, metadata>>

\* seed_historical_data without line 180: the exception ends in the except branch
Reraise_swallowed(r) == Return([r EXCEPT !.fbDone = TRUE], "none")

\* seed_historical_data, line 180: the bare raise after the fallback
Reraise(r) == Return([r EXCEPT !.fbDone = TRUE], r.exc)

\* _seed_synthetic_data, lines 218-244: one energy record; after the last one
\* seed_historical_data re-raises what it caught
FallbackEnergy(p) ==
    /\ run[p].pc = "fb_energy"
    /\ LET key == fallback_keys[run[p].k]
           last == run[p].k = Len(fallback_keys)
       IN  \/ /\ \E d \in Draws :
                    energy' = seed_write(energy,
                                         SyntheticEnergy(key.country, key.year, d, now))
              /\ run' = [run EXCEPT ![p] =
                            IF last THEN Reraise([@ EXCEPT !.wrote = TRUE])
                            ELSE [@ EXCEPT !.wrote = TRUE, !.k = @ + 1]]
              /\ UNCHANGED faults
           \/ /\ Fault
              /\ run' = [run EXCEPT ![p] = Return(@, "fallback")]
              /\ UNCHANGED energy
    /\ UNCHANGED <<Env, emissions, metadata>>

----------------------------------------------------------------------------

Next ==
    \/ start_scheduler
    \/ Tick
    \/ stop_scheduler
    \/ TimePasses
    \/ \E p \in Slots :
          \/ CountStep(p)
          \/ FindStep(p)
          \/ FetchOwid(p)
          \/ EmissionsRow(p)
          \/ FetchWorldBank(p)
          \/ EnergyUpsert(p)
          \/ Sleep(p)
          \/ UpdateMetadata(p)
          \/ FallbackEmissions(p)
          \/ FallbackEnergy(p)

Spec == Init /\ [][Next]_vars

----------------------------------------------------------------------------
(* The synthetic generator on its own: one energy record, generated from   *)
(* any country, year and draws the code admits, into an empty collection   *)

\* data_service.py:188  years = range(2010, 2024)
years == 2010..2023

\* the countries the generator is run for: self.countries of the model and
\* the countries of self.base_renewable (Norway is in self.countries too)
GeneratorCountries == {countries[i] : i \in 1..Len(countries)} \cup DOMAIN base_renewable

\* the draws the generator can make: the ends and the middle of the range of
\* random.uniform(0.02, 0.08), of random.uniform(0.9, 1.1) and of
\* random.uniform(0.95, 1.05), and the ends of random.uniform(5, 40) and of
\* random.uniform(50, 4000)
AdmissibleDraws ==
    [growth : {20, 50, 80}, jitter : {9, 10, 11}, population : {1400}, gdp : {25000},
     energy : {50, 4000}, base_emission : {1000}, base_renewable : {500, 4000},
     variation : {95, 100, 105}]

InitSynthetic ==
    /\ phase = "init"
    /\ schedRunning = FALSE
    /\ ticks = 0
    /\ skipped = 0
    /\ started = 0
    /\ overrun = FALSE
    /\ now = 0
    /\ owid = Upstream[3].owid
    /\ wb = Upstream[3].wb
    /\ emissions = EmptyCollection
    /\ energy = EmptyCollection
    /\ metadata = << >>
    /\ run = [p \in Slots |-> Idle]
    /\ faults = 0

\* _seed_synthetic_data, lines 220-242: one record of the backfill
SeedEnergyRecord ==
    /\ energy = EmptyCollection
    /\ \E c \in GeneratorCountries : \E y \in years : \E d \in AdmissibleDraws :
          energy' = seed_write(energy, SyntheticEnergy(c, y, d, now))
    /\ UNCHANGED <<Env, emissions, metadata, run, faults>>

\* update_energy_data, lines 118-144: one record of the single-year update
update_energy_data ==
    /\ energy = EmptyCollection
    /\ \E c \in GeneratorCountries : \E d \in AdmissibleDraws :
          energy' = update_one(energy, UpdateEnergyRecord(c, d, now))
    /\ UNCHANGED <<Env, emissions, metadata, run, faults>>

NextSynthetic == SeedEnergyRecord \/ update_energy_data

SpecSynthetic == InitSynthetic /\ [][NextSynthetic]_vars

----------------------------------------------------------------------------
(* Properties of the scheduler and the orchestrator                         *)

\* the run in slot p has come to its end (returned, raised or was cancelled)
Done(p) == run[p].pc = "done"

\* the run in slot p ended by itself: the scheduler's shutdown did not cancel it
Ended(p) == Done(p) /\ run[p].raised # "cancelled"

\* the runs in flight
Running == {p \in Slots : InFlight(p)}

\* C1: at every moment at most one run of update_sustainability_data is in
\* flight, the run created at startup counted with the runs the interval
\* starts (so a tick that comes while a run is in flight starts none).
\* The code does not keep this: the startup task is unknown to the scheduler,
\* and the first tick starts a second run beside it.
C1_AtMostOneRunInFlight == Cardinality(Running) <= 1

\* C2: once no run is in flight, whatever runs there have been, neither the
\* emissions nor the energy collection holds two documents with the same
\* (country, year).
\* The code does not keep this: the fallback writes with insert_one.
C2_NoDuplicateKeys ==
    Running = {} =>
        /\ \A k \in DOMAIN emissions : Len(emissions[k]) <= 1
        /\ \A k \in DOMAIN energy : Len(energy[k]) <= 1

\* the run in slot p went through its fetches and found neither provider
BothUnreachable(p) ==
    /\ Ended(p)
    /\ run[p].gate = "proceed"
    /\ run[p].owidDown
    /\ ~run[p].wbReached

\* exactly one document per key of the fallback's range, tagged synthetic
OneSyntheticPerKey(coll) ==
    \A i \in 1..Len(fallback_keys) :
        LET docs == Matching(coll, fallback_keys[i].country, fallback_keys[i].year)
        IN  Len(docs) = 1 /\ ~NotSynthetic(docs[1])

\* C3: when both providers were unreachable for a run, after the run the store
\* holds exactly one emissions and one energy document per (country, year) of
\* the configured range, all tagged synthetic.
\* The code does not keep this: both adapters answer an unreachable provider
\* with an empty result, nothing raises and the fallback is never entered.
C3_FallbackCompleteness ==
    \A p \in Slots :
        BothUnreachable(p) => OneSyntheticPerKey(emissions) /\ OneSyntheticPerKey(energy)

\* C7: a run whose bulk download found the provider unreachable is a failed
\* run: seed_historical_data catches a failure and enters the fallback.
\* The code does not keep this: fetch_owid_co2_data returns {} and the run
\* completes as a success.
C7_UnreachableBulkFailsRun ==
    \A p \in Slots :
        (Ended(p) /\ run[p].owidDown) => run[p].exc # "none"

\* C8: when a run was still in flight as an interval elapsed, fewer runs have
\* been started (the startup run included) than intervals have elapsed.
\* The code does not keep this: a tick during the startup run is not skipped.
C8_OverrunSkipsTick == overrun => started < ticks

\* the gate of the run in slot p was met with fresh metadata and a count of
\* recent non-synthetic records above the threshold
GateConditions(p) ==
    /\ run[p].gate # "none"
    /\ run[p].gateFresh
    /\ run[p].gateCount > RealDataThreshold

C5_SkipNeedsBothConditions ==
    \A p \in Slots :
        run[p].gate \in {"skip_count", "skip_recent"} =>
            run[p].gateCount > RealDataThreshold /\ run[p].gateFresh

\* every key of the fallback's range has a document in the collection
Populated(coll) ==
    \A i \in 1..Len(fallback_keys) :
        Matching(coll, fallback_keys[i].country, fallback_keys[i].year) # << >>

\* C6: a run in which the fetch raised is in the fallback until it ends; when
\* the fallback has completed, both collections hold a document for every
\* (country, year) of the configured range and what the caller of
\* seed_historical_data gets is the exception that was caught; the only other
\* ways out are the fallback's own failure and cancellation.
C6_FallbackThenReraise ==
    \A p \in Slots :
        /\ run[p].fbDone =>
              /\ Done(p)
              /\ run[p].exc # "none"
              /\ run[p].raised = run[p].exc
              /\ Populated(emissions) /\ Populated(energy)
        /\ (run[p].exc # "none" /\ InFlight(p)) =>
              run[p].pc \in {"fb_emissions", "fb_energy"}
        /\ (run[p].exc # "none" /\ Done(p) /\ ~run[p].fbDone) =>
              run[p].raised \in {"fallback", "cancelled"}
        /\ (run[p].exc = "none" /\ Done(p)) =>
              run[p].raised \in {"none", "cancelled"}

\* a run whose fetch raised on a provider's row has completed the fallback and
\* raised that exception
C6_Witness ==
    \E p \in Slots :
        /\ run[p].fbDone
        /\ run[p].exc = "energy_row"
        /\ run[p].raised = "energy_row"

\* C9: start_scheduler starts one run at once, before any interval has
\* elapsed, and from then on every elapsed interval is one attempt at a run
\* (a run started, or a run skipped because the job is still running).
C9_ImmediateThenPerInterval ==
    /\ phase = "init" => started = 0 /\ ticks = 0 /\ skipped = 0
    /\ phase # "init" =>
          /\ run["boot"].pc # "idle"
          /\ started + skipped = ticks + 1
          /\ started >= 1

\* two intervals have elapsed: the startup run, one run started by a tick and
\* one tick skipped
C9_Witness ==
    /\ phase = "up"
    /\ ticks = 2
    /\ started = 2
    /\ skipped = 1

\* the step is a successful update_one of the emissions loop by slot p
EmissionsUpsertStep(p) ==
    /\ run[p].pc = "emissions"
    /\ ~SkipsRow(Head(run[p].queue))
    /\ run'[p].queue = Tail(run[p].queue)
    /\ run'[p].pc # "done"
    /\ faults' = faults

\* the step is a successful update_one of the energy loop by slot p
EnergyUpsertStep(p) ==
    /\ run[p].pc = "energy"
    /\ run'[p].queue = Tail(run[p].queue)
    /\ run'[p].pc # "done"
    /\ faults' = faults

\* the first document of the key already carries every field of rec: rec has
\* been upserted before and nothing has changed it since
AlreadyUpserted(coll, rec) ==
    LET docs == Matching(coll, rec.country, rec.year)
    IN  docs # << >> /\ SetFields(docs[1], rec) = docs[1]

\* after the step the key of rec has one document, the one it had
OneRecordSameValues(before, after, rec) ==
    LET docs == Matching(after, rec.country, rec.year)
    IN  Len(docs) = 1 /\ docs[1] = Matching(before, rec.country, rec.year)[1]

\* C10: an upsert of a record that has been upserted before leaves exactly one
\* document for its (country, year), with the values the first upsert left.
\* The code does not keep this once the fallback has inserted a second document
\* for the key: update_one changes the first match and the other one stays.
C10_UpsertTwice ==
    [][\A p \in Slots :
          /\ (EmissionsUpsertStep(p)
                /\ AlreadyUpserted(emissions, EmissionRecord(Head(run[p].queue), now)))
             => OneRecordSameValues(emissions, emissions',
                                    EmissionRecord(Head(run[p].queue), now))
          /\ (EnergyUpsertStep(p) /\ AlreadyUpserted(energy, Head(run[p].queue)))
             => OneRecordSameValues(energy, energy', Head(run[p].queue))]_vars

\* a document without its timestamps
Values(d) == [f \in DOMAIN d \ {"created_at", "updated_at"} |-> d[f]]

\* the documents of a collection, key by key, without their timestamps
StoredValues(coll) ==
    [k \in DOMAIN coll |-> [i \in 1..Len(coll[k]) |-> Values(coll[k][i])]]

\* C11: runs made after the first run has ended, the providers answering as
\* they did, leave the stored values as they were but for the timestamps: no
\* key gains a document, no value changes.  (The clock only moves after startup and
\* when nothing is in flight: a step on a later day belongs to a run started
\* after the first one ended.)
\* The code does not keep this, even when every store call is answered: a
\* later run that fails as the first one did inserts the synthetic records
\* once more.
C11_RerunConverges ==
    [][(now > 0 /\ Done("boot") /\ faults' = 0) =>
          /\ StoredValues(emissions') = StoredValues(emissions)
          /\ StoredValues(energy') = StoredValues(energy)]_vars

\* the document update_one has written to, after the step
Upserted(after, rec) == Matching(after, rec.country, rec.year)[1]

\* C12: after an upsert the stored record is the written record, field for
\* field: nothing of the record stored before is left, its provenance tag
\* included.
\* The code does not keep this: {"$set": record} leaves the fields the record
\* does not carry, and an energy record carries no data_source.
C12_UpsertReplacesRecord ==
    [][\A p \in Slots :
          /\ EmissionsUpsertStep(p) =>
                Upserted(emissions', EmissionRecord(Head(run[p].queue), now))
                    = EmissionRecord(Head(run[p].queue), now)
          /\ EnergyUpsertStep(p) =>
                Upserted(energy', Head(run[p].queue)) = Head(run[p].queue)]_vars

\* C13: every energy record in the store has its renewable_percentage within
\* [0, 100] (in hundredths of a percent), whatever the per-indicator provider
\* returned.
\* The code does not keep this: only the synthetic generator clamps (to at
\* most 100); a provider's value is stored as it came.
C13_PercentageInRange ==
    \A d \in Documents(energy) :
        0 <= d.renewable_percentage /\ d.renewable_percentage <= 10000

\* the stored co2_emissions of d is the total of the source line r, or the
\* product of its per-capita figure and its population
FromSourceLine(d, r) ==
    /\ r.country = d.country
    /\ r.year = d.year
    /\ \/ Truthy(r.co2) /\ d.co2_emissions = r.co2[1]
       \/ /\ Truthy(r.co2_per_capita)
          /\ Truthy(r.population)
          /\ d.co2_emissions = r.co2_per_capita[1] * r.population[1]

\* C14: every stored record of the bulk source has as co2_emissions the
\* source's total or co2_per_capita * population / 1e6; a line that gives
\* neither a total nor the two figures to derive it from has no record.
\* The code does not keep this: a line with a per-capita figure only passes
\* the check of line 394 and is stored with co2_emissions = 0.0.
C14_EmissionsFromSourceOrDerived ==
    \A d \in Documents(emissions) :
        d.data_source = "our_world_in_data" =>
            \E i \in 1..Len(owid.file) : FromSourceLine(d, owid.file[i])

\* x is v to the last stored decimal
About(x, v) == v - 1 <= x /\ x <= v + 1

\* the run in slot p has passed both gates and left the emissions loop
PastEmissions(p) ==
    /\ run[p].gate = "proceed"
    /\ run[p].pc \notin {"owid", "emissions"}
    /\ run[p].raised # "cancelled"

\* the emissions documents of a key that carry the bulk source's tag
OwidDocs(c, y) ==
    {d \in Documents(emissions) :
        d.country = c /\ d.year = y /\ d.data_source = "our_world_in_data"}

\* The bulk provider serves, for 2023, United States with a total of 5000 Mt
\* and 330 million people, and Germany with 8.5 t per person and 83 million
\* people.  What the store then holds under the bulk source's tag has a
\* per-capita figure of about 15.15 t for the United States and, for Germany,
\* co2_emissions of about deTotal (hundredths of a Mt); a run that has left
\* its emissions loop without a failed store call has stored both.
Reconciled(deTotal) ==
    owid.file = OwidFileA =>
        /\ \A d \in OwidDocs("United States", 2023) :
              d.co2_emissions = 500000 /\ About(d.co2_per_capita, 1515)
        /\ \A d \in OwidDocs("Germany", 2023) :
              d.co2_per_capita = 850 /\ About(d.co2_emissions, deTotal)
        /\ \A p \in Slots :
              (PastEmissions(p) /\ faults = 0) =>
                  /\ OwidDocs("United States", 2023) # {}
                  /\ OwidDocs("Germany", 2023) # {}

\* C15 as stated: Germany's derived co2_emissions is about 0.71 Mt.  It fails:
\* 8.5 t x 83,000,000 / 1e6 is 705.5 Mt.
C15_AsStated == Reconciled(71)

\* C15 amended: Germany's derived co2_emissions is about 705.5 Mt.
C15_Reconciliation == Reconciled(70550)

\* a run has stored both records of 2023 from the file of the example
C15_Witness ==
    /\ owid.file = OwidFileA
    /\ faults = 0
    /\ \E p \in Slots : PastEmissions(p)
    /\ OwidDocs("United States", 2023) # {}
    /\ OwidDocs("Germany", 2023) # {}

\* total_energy_consumption of d in whole TWh (the totals of the model are whole)
TWh(d) == d.total_energy_consumption \div 100

\* renewable_energy + fossil_fuel_energy is total_energy_consumption, to the
\* last stored decimal
Balanced(d) ==
    About(d.renewable_energy + d.fossil_fuel_energy, d.total_energy_consumption)

\* |renewable_energy - total * renewable_percentage / 100| <= tol / 200, all
\* figures in hundredths
ShareWithin(d, tol) ==
    LET diff == 200 * d.renewable_energy - 2 * TWh(d) * d.renewable_percentage
    IN  0 - tol <= diff /\ diff <= tol

Years == {all_years[i] : i \in 1..Len(all_years)}

\* no row of the per-indicator provider fails to build a record
NoRaisingRows ==
    \A y \in Years : \A i \in 1..Len(wb[y].rows) : ~RaisesOnRow(wb[y].rows[i])

\* the energy collection has the record built from every row the provider
\* returned for year y
YearPersisted(y) ==
    LET recs == records_to_upsert(fetch_world_bank_data(wb, y), y, now)
    IN  \A i \in 1..Len(recs) :
            \E d \in Documents(energy) :
                /\ d.country = recs[i].country
                /\ d.year = y
                /\ d.renewable_percentage = recs[i].renewable_percentage
                /\ d.renewable_energy = recs[i].renewable_energy

\* C17: a per-indicator call that fails gives an empty result for its year and
\* nothing else: as long as no store call fails and no row fails to build,
\* no run catches an exception, and a run that passed the gates and ended has
\* made the calls of the other years and stored their rows.
C17_FailedCallIsolated ==
    (faults = 0 /\ NoRaisingRows) =>
        \A p \in Slots :
            /\ run[p].exc = "none"
            /\ (Ended(p) /\ run[p].gate = "proceed") =>
                  /\ (\E y \in Years : wb[y].reachable) => run[p].wbReached
                  /\ \A y \in Years : YearPersisted(y)

\* the call for 2019 failed, the call for 2023 was made and its rows are stored
C17_Witness ==
    /\ ~wb[2019].reachable
    /\ wb[2023].reachable
    /\ faults = 0
    /\ NoRaisingRows
    /\ \E p \in Slots : Ended(p) /\ run[p].gate = "proceed" /\ run[p].wbReached
    /\ \E d \in Documents(energy) : d.country = "DEU" /\ d.year = 2023

\* the records the coroutine in slot p can hand to the store in its next step
Writing(p) ==
    CASE run[p].pc = "emissions" -> {EmissionRecord(Head(run[p].queue), now)}
      [] run[p].pc = "energy" -> {Head(run[p].queue)}
      [] run[p].pc = "fb_emissions" ->
            {SyntheticEmission(fallback_keys[run[p].k].country,
                               fallback_keys[run[p].k].year, d, now) : d \in Draws}
      [] run[p].pc = "fb_energy" ->
            {SyntheticEnergy(fallback_keys[run[p].k].country,
                             fallback_keys[run[p].k].year, d, now) : d \in Draws}
      [] OTHER -> {}

\* the document has every field of the record, with the record's value
Carries(doc, rec) ==
    DOMAIN rec \subseteq DOMAIN doc /\ \A f \in DOMAIN rec : doc[f] = rec[f]

\* no key loses a document in the step
Kept(before, after) ==
    \A k \in DOMAIN before : k \in DOMAIN after /\ Len(after[k]) >= Len(before[k])

\* every document after the step is a document of before, untouched, or
\* carries one of the records whole
Whole(before, after, recs) ==
    \A k \in DOMAIN after : \A i \in 1..Len(after[k]) :
        \/ k \in DOMAIN before /\ i <= Len(before[k]) /\ after[k][i] = before[k][i]
        \/ \E rec \in recs : Carries(after[k][i], rec)

\* C18: the store between any two store calls, which is where a kill leaves
\* it: a step of a run leaves every document as it was or with one written
\* record whole in it, and removes none; cancelling a run changes nothing.
C18_KilledRunLeavesWholeRecords ==
    [][/\ Kept(emissions, emissions')
       /\ Kept(energy, energy')
       /\ Whole(emissions, emissions', UNION {Writing(p) : p \in Slots})
       /\ Whole(energy, energy', UNION {Writing(p) : p \in Slots})]_vars

\* the scheduler's run was cancelled after it had written its emissions
\* records and before it wrote an energy record
C18_Witness ==
    /\ run["job"].raised = "cancelled"
    /\ run["job"].gate = "proceed"
    /\ run["job"].wrote
    /\ emissions # EmptyCollection
    /\ energy = EmptyCollection

\* C19: a store call that fails while one key is upserted, in the emissions
\* loop or in the energy loop, is never the exception seed_historical_data
\* catches: the run goes on with the next key.
\* The code does not keep this: the energy loop has no try around update_one.
C19_FailedUpsertTolerated ==
    \A p \in Slots : run[p].exc \notin {"emissions_upsert", "energy_upsert"}

\* C20: a source row that cannot be made into a record, in the emissions loop
\* or in the energy loop, is never the exception seed_historical_data catches:
\* the row is dropped and the run goes on.
\* The code does not keep this: the energy loop builds its records with no
\* try around the row.
C20_BadRowDropped ==
    \A p \in Slots : run[p].exc \notin {"emissions_row", "energy_row"}


\* the provenance tags the pipeline writes
ProvenanceTags == {"our_world_in_data", "world_bank", "synthetic"}

\* a document that names where its figures came from
Tagged(d) == "data_source" \in DOMAIN d /\ d.data_source \in ProvenanceTags

\* C21: every record persisted in emissions and in energy carries a
\* provenance tag, and the record a real provider's figures were just written
\* to is not tagged synthetic.
\* The code does not keep this: the energy records written from the
\* per-indicator provider carry no data_source at all, and written over a
\* synthetic record they leave its tag in place.
C21_ProvenanceTagged ==
    /\ [](\A d \in Documents(emissions) \cup Documents(energy) : Tagged(d))
    /\ [][\A p \in Slots :
            /\ EmissionsUpsertStep(p) =>
                 LET d == Upserted(emissions', EmissionRecord(Head(run[p].queue), now))
                 IN  Tagged(d) /\ d.data_source # "synthetic"
            /\ EnergyUpsertStep(p) =>
                 LET d == Upserted(energy', Head(run[p].queue))
                 IN  Tagged(d) /\ d.data_source # "synthetic"]_vars

\* C22: the metadata record changes only in a step of a run that has
\* persisted provider data in its reconciliation.
\* The code does not keep this: a run that got no rows from either provider
\* reaches the metadata update all the same.
C22_MetadataOnlyAfterPersist ==
    [][metadata' # metadata =>
          \E p \in Slots : /\ run[p].pc = "metadata"
                           /\ run'[p] # run[p]
                           /\ run[p].wrote]_vars

\* the lookup-table key of the country an energy record names, by the
\* provider's three-letter code, the two-letter code or the full name
TableKeyOf(country) ==
    CASE country \in {"USA", "US", "United States"} -> Some("US")
      [] country \in {"DEU", "DE", "Germany"} -> Some("DE")
      [] OTHER -> None

\* C23: the energy record upserted for a country of the lookup table stores
\* that country's table value as total_energy_consumption (in hundredths of a
\* TWh); the default is stored only for a country the table does not have.
\* The code does not keep this: the table is keyed by two-letter codes and is
\* looked up with the provider's three-letter code, so the United States get
\* the default.
C23_TotalFromLookupTable ==
    [][\A p \in Slots :
          EnergyUpsertStep(p) =>
              LET rec == Head(run[p].queue)
                  d == Upserted(energy', rec)
                  key == TableKeyOf(rec.country)
              IN  d.total_energy_consumption =
                      IF key # None THEN 100 * energy_estimates[key[1]]
                      ELSE 100 * DefaultEnergy]_vars

\* the stored co2_per_capita of d (hundredths of a tonne) is what the source
\* line r gives for it: r's figure; or, r having none, the stored total over
\* r's population, to the last stored decimal; or, r having neither a
\* per-capita figure nor a population, the placeholder 0
PerCapitaFromLine(d, r) ==
    /\ r.country = d.country
    /\ r.year = d.year
    /\ ~r.malformed
    /\ \/ Truthy(r.co2_per_capita) /\ d.co2_per_capita = r.co2_per_capita[1]
       \/ /\ ~Truthy(r.co2_per_capita)
          /\ Truthy(r.co2)
          /\ Truthy(r.population)
          /\ d.co2_emissions = r.co2[1]
          /\ 2 * d.co2_per_capita * r.population[1] <= 2 * r.co2[1] + r.population[1]
          /\ 2 * d.co2_per_capita * r.population[1] >= 2 * r.co2[1] - r.population[1]
       \/ /\ ~Truthy(r.co2_per_capita)
          /\ Truthy(r.co2)
          /\ ~Truthy(r.population)
          /\ d.co2_per_capita = 0

\* C24: the co2_per_capita of every stored record of the bulk source is the
\* source's figure or, the source giving a total and a population, the total
\* x 1e6 / population; it is the placeholder 0 only for a line with no
\* per-capita figure and no population.
C24_PerCapitaFromSourceOrDerived ==
    \A d \in Documents(emissions) :
        d.data_source = "our_world_in_data" =>
            \E i \in 1..Len(owid.file) : PerCapitaFromLine(d, owid.file[i])

\* the store holds a record with a derived per-capita figure and one with
\* the source's
C24_Witness ==
    /\ owid.file = OwidFileA
    /\ \E d \in OwidDocs("United States", 2023) : d.co2_per_capita = 1515
    /\ \E d \in OwidDocs("Germany", 2023) : d.co2_per_capita = 850

\* the store holds the record of a line with a total only: the placeholder
C24_PlaceholderStored ==
    /\ owid.file = OwidFileB
    /\ \E d \in OwidDocs("Germany", 2019) :
          d.co2_emissions = 70100 /\ d.co2_per_capita = 0

\* C25: once shutdown has completed no run is in flight, and from then on no
\* run starts and nothing is written to the store.
\* The code does not keep this: shutdown cancels the scheduler's own job
\* instance only; the task created at startup is referenced by nobody, is
\* neither awaited nor cancelled, and goes on through its store calls.
C25_ShutdownEndsRuns ==
    /\ [](phase = "down" => \A p \in Slots : ~InFlight(p))
    /\ [][phase = "down" =>
             /\ started' = started
             /\ emissions' = emissions
             /\ energy' = energy
             /\ metadata' = metadata]_vars

\* the rows of a queue are in ascending order of year
AscendingYears(q) ==
    \A i \in 1..Len(q) : \A j \in 1..Len(q) : i < j => q[i].year <= q[j].year

C27_CallsSerialized ==
    /\ [](\A p \in Slots :
             run[p].pc = "sleep" =>
                 /\ run[p].queue = << >>
                 /\ faults = 0 => YearPersisted(all_years[run[p].yi]))
    /\ [][\A p \in Slots :
            (run'[p].pc = "wb" /\ run'[p] # run[p]) =>
                \/ /\ run[p].pc = "sleep"
                   /\ run'[p].yi = run[p].yi + 1
                \/ /\ run[p].pc \in {"owid", "emissions"}
                   /\ run'[p].yi = 1]_vars

\* a run is at the call for the second year, the first year's record stored
C27_Witness ==
    /\ wb[2019].rows # << >>
    /\ YearPersisted(2019)
    /\ \E p \in Slots : run[p].pc = "wb" /\ run[p].yi = 2 /\ run[p].wrote

\* a line of the file the bulk adapter has to accept
Acceptable(r) ==
    /\ ~r.malformed
    /\ r.year \in Years
    /\ r.country \in target_countries
    /\ (r.co2 # None \/ r.co2_per_capita # None)

\* the positions in the file of the acceptable lines of year y
AcceptableLines(file, y) ==
    {j \in 1..Len(file) : Acceptable(file[j]) /\ file[j].year = y}

\* C28: what the bulk adapter returns to a run that is about to call it, for
\* the file served, holds, under each
\* year, exactly the records of the file's well-formed lines of that year
\* with a target country and a total or a per-capita figure: one record per
\* such line, in the order of the file, whatever malformed or rejected lines
\* stand between them; and these are the rows a run's emissions loop gets.
C28_BulkAdapterFilter ==
    LET data == fetch_owid_co2_data(owid)
    IN  /\ (owid.reachable /\ \E p \in Slots : run[p].pc = "owid") =>
              \A i \in 1..Len(data) :
                  /\ data[i].year = all_years[i]
                  /\ Len(data[i].rows) = Cardinality(AcceptableLines(owid.file, data[i].year))
                  /\ \A k \in 1..Len(data[i].rows) :
                        \E j \in AcceptableLines(owid.file, data[i].year) :
                            /\ data[i].rows[k] = OwidRecord(owid.file[j])
                            /\ Cardinality({m \in AcceptableLines(owid.file, data[i].year) :
                                               m < j}) = k - 1
        /\ \A p \in Slots :
              run[p].pc = "emissions" =>
                  \A k \in 1..Len(run[p].queue) :
                      \E j \in 1..Len(owid.file) :
                          /\ Acceptable(owid.file[j])
                          /\ run[p].queue[k] = OwidRecord(owid.file[j])

\* a run has in its emissions loop a row accepted before the malformed line
\* of the file and a row accepted after it, next to lines out of range,
\* without figures and of a country that is no target
C28_Witness ==
    /\ owid.file = OwidFileB
    /\ \E j \in 1..Len(owid.file) :
          /\ owid.file[j].malformed
          /\ \E a \in 1..(j - 1) : \E b \in (j + 1)..Len(owid.file) :
                \E p \in Slots :
                    /\ run[p].pc = "emissions"
                    /\ \E k \in 1..Len(run[p].queue) :
                          run[p].queue[k] = OwidRecord(owid.file[a])
                    /\ \E k \in 1..Len(run[p].queue) :
                          run[p].queue[k] = OwidRecord(owid.file[b])

\* C30: every synthetic energy record, of the backfill and of the single-year
\* update, for every country, year of 2010..2023 and admissible draw, has a
\* renewable_percentage (in hundredths) from 0 to 100, and its energies are
\* not negative.
C30_SyntheticPercentageInRange ==
    \A d \in Documents(energy) :
        /\ 0 <= d.renewable_percentage
        /\ d.renewable_percentage <= 10000
        /\ d.renewable_energy >= 0
        /\ d.fossil_fuel_energy >= 0

\* a record of the backfill whose percentage was cut to 100
C30_Witness ==
    \E d \in Documents(energy) :
        /\ "data_source" \in DOMAIN d
        /\ d.country = "Norway"
        /\ d.year = 2023
        /\ d.renewable_percentage = 10000
        /\ d.fossil_fuel_energy = 0

\* a record of the single-year update whose percentage was cut to 100
C30_SingleYearClamped ==
    \E d \in Documents(energy) :
        /\ "data_source" \notin DOMAIN d
        /\ d.country = "Norway"
        /\ d.renewable_percentage = 10000

\* the step is a successful insert_one of the fallback of slot p into coll
FallbackWriteStep(p, pc) ==
    /\ run[p].pc = pc
    /\ run'[p] # run[p]
    /\ run'[p].raised = (IF run'[p].fbDone THEN run[p].exc ELSE "none")
    /\ faults' = faults

\* after is before with one more document, the last of key (c, y), tagged
\* synthetic, and nothing else changed
OneSyntheticAdded(before, after, c, y) ==
    LET docs == Matching(after, c, y)
    IN  /\ docs # << >>
        /\ SubSeq(docs, 1, Len(docs) - 1) = Matching(before, c, y)
        /\ docs[Len(docs)].country = c
        /\ docs[Len(docs)].year = y
        /\ docs[Len(docs)].data_source = "synthetic"
        /\ \A k \in DOMAIN after : k # <<c, y>> => Matching(before, k[1], k[2]) = after[k]
        /\ DOMAIN before \subseteq DOMAIN after

\* C29: the fallback goes once through the (country, year) pairs of the target
\* countries and the years of the range, each pair once, first for emissions
\* and then for energy, and every step of it adds one record tagged
\* synthetic for the pair it is at, a country without a baseline in the
\* tables included; a run whose fallback has completed leaves with the
\* exception it had caught, not with one of the generator, and both
\* collections hold a record for every pair.
C29_FallbackWritesOnePerKey ==
    /\ [](\A c \in target_countries : \A y \in Years :
             Cardinality({i \in 1..Len(fallback_keys) :
                             fallback_keys[i] = [year |-> y, country |-> c]}) = 1)
    /\ [](\A p \in Slots :
             run[p].fbDone =>
                 /\ run[p].raised = run[p].exc
                 /\ \A c \in target_countries : \A y \in Years :
                       Matching(emissions, c, y) # << >> /\ Matching(energy, c, y) # << >>)
    /\ [][\A p \in Slots :
            LET key == fallback_keys[run[p].k]
                last == run[p].k = Len(fallback_keys)
            IN  /\ FallbackWriteStep(p, "fb_emissions") =>
                      /\ OneSyntheticAdded(emissions, emissions', key.country, key.year)
                      /\ energy' = energy
                      /\ IF last THEN run'[p].pc = "fb_energy" /\ run'[p].k = 1
                         ELSE run'[p].pc = "fb_emissions" /\ run'[p].k = run[p].k + 1
                /\ FallbackWriteStep(p, "fb_energy") =>
                      /\ OneSyntheticAdded(energy, energy', key.country, key.year)
                      /\ emissions' = emissions
                      /\ IF last THEN run'[p].fbDone
                         ELSE run'[p].pc = "fb_energy" /\ run'[p].k = run[p].k + 1]_vars

\* a fallback has completed, and the store holds the synthetic records of a
\* country that has no baseline in either table
C29_Witness ==
    /\ "Greece" \notin DOMAIN base_emissions \cup DOMAIN base_renewable
    /\ \E p \in Slots : run[p].fbDone /\ run[p].raised = run[p].exc
    /\ \A y \in Years :
          /\ \E d \in Documents(emissions) :
                d.country = "Greece" /\ d.year = y /\ d.data_source = "synthetic"
          /\ \E d \in Documents(energy) :
                d.country = "Greece" /\ d.year = y /\ d.data_source = "synthetic"

\* C31: the status reports running from start_scheduler until stop_scheduler
\* and at no other time; while running it lists the update job, and no other,
\* with a next fire time; when not running it lists no job.
C31_SchedulerStatus ==
    LET status == get_scheduler_status
    IN  /\ status.running <=> phase = "up"
        /\ status.running =>
              /\ Len(status.jobs) = 1
              /\ status.jobs[1].id = "sustainability_data_update"
              /\ status.jobs[1].next_run # None
              /\ status.jobs[1].next_run[1] > ticks
        /\ ~status.running => status.jobs = << >>

\* the scheduler has been stopped after an interval had elapsed: the job is
\* still in the scheduler's store and the status lists nothing
C31_Witness ==
    /\ phase = "down"
    /\ ticks > 0
    /\ get_jobs # << >>
    /\ ~get_scheduler_status.running
    /\ get_scheduler_status.jobs = << >>

\* the emissions collection holds more recent non-synthetic records than the
\* threshold of the first gate
Saturated == count_documents(emissions) > RealDataThreshold

\* the step is the first one of a run that starts on a saturated store
FirstStepWhenSaturated(p) ==
    /\ run[p].pc = "count"
    /\ run'[p] # run[p]
    /\ Saturated

\* no step takes the store out of saturation
StaysSaturated ==
    emissions' # emissions => (Saturated => count_documents(emissions') > RealDataThreshold)

CanonicalName(s) ==
    CASE s \in {"USA", "US", "United States"} -> Some("United States")
      [] s \in {"DEU", "DE", "Germany"} -> Some("Germany")
      [] s \in {"GRC", "GR", "Greece"} -> Some("Greece")
      [] OTHER -> None

\* C33: every record of either collection that stands for a target country
\* carries that country's canonical name, so an energy record and an
\* emissions record of the same country and year have the same key.
\* The code does not keep this: iso3_to_name is keyed by two-letter codes and
\* looked up with the provider's three-letter code, so the energy record of
\* the United States is stored under "USA" and the emissions record under
\* "United States".
C33_SharedCountryKeys ==
    \A d \in Documents(emissions) \cup Documents(energy) :
        CanonicalName(d.country) # None => d.country = CanonicalName(d.country)[1]

\* the number of documents of the keys K of a collection, all of them or the
\* non-synthetic ones only
RECURSIVE CountDocs(_, _, _)
CountDocs(coll, K, realOnly) ==
    IF K = {} THEN 0
    ELSE LET k == CHOOSE x \in K : TRUE
         IN  Cardinality({i \in 1..Len(coll[k]) : ~realOnly \/ NotSynthetic(coll[k][i])})
                 + CountDocs(coll, K \ {k}, realOnly)

Total(coll) == CountDocs(coll, DOMAIN coll, FALSE)

NonSynthetic(coll) == CountDocs(coll, DOMAIN coll, TRUE)

\* every document of before is in after, at its place and as it was
Untouched(before, after) ==
    /\ DOMAIN before \subseteq DOMAIN after
    /\ \A k \in DOMAIN before :
          /\ Len(after[k]) >= Len(before[k])
          /\ SubSeq(after[k], 1, Len(before[k])) = before[k]

\* the synthetic documents of a collection
SyntheticCount(coll) == Total(coll) - NonSynthetic(coll)

\* C34: a write of the fallback adds one record to its collection and leaves
\* every record of the store as it was; the fallback makes one such write per
\* country and year of its range into each collection, so a fallback that
\* has completed in the only run so far has left |countries| x |years|
\* synthetic records in each; and no step of the pipeline lowers the number
\* of non-synthetic records of a collection.
C34_FallbackOnlyAdds ==
    /\ [][/\ emissions' # emissions => NonSynthetic(emissions') >= NonSynthetic(emissions)
          /\ energy' # energy => NonSynthetic(energy') >= NonSynthetic(energy)
          /\ \A p \in Slots :
                /\ FallbackWriteStep(p, "fb_emissions") =>
                      /\ Untouched(emissions, emissions')
                      /\ Total(emissions') = Total(emissions) + 1
                      /\ NonSynthetic(emissions') = NonSynthetic(emissions)
                      /\ energy' = energy /\ metadata' = metadata
                /\ FallbackWriteStep(p, "fb_energy") =>
                      /\ Untouched(energy, energy')
                      /\ Total(energy') = Total(energy) + 1
                      /\ NonSynthetic(energy') = NonSynthetic(energy)
                      /\ emissions' = emissions /\ metadata' = metadata]_vars
    /\ [](Len(fallback_keys) = Len(countries) * Cardinality(Years))
    /\ []((started = 1 /\ \E p \in Slots : run[p].fbDone) =>
             /\ SyntheticCount(emissions) = Len(countries) * Cardinality(Years)
             /\ SyntheticCount(energy) = Len(countries) * Cardinality(Years))

\* the only run so far has completed its fallback on a store that held real
\* records before
C34_Witness ==
    /\ started = 1
    /\ \E p \in Slots : run[p].fbDone
    /\ NonSynthetic(emissions) > 0
    /\ SyntheticCount(emissions) = Len(fallback_keys)
    /\ SyntheticCount(energy) = Len(fallback_keys)

\* the exceptions a run can end with
Raised(p) == run[p].raised \notin {"none", "cancelled"}

\* C35: whatever a run raises ends in update_sustainability_data: the run has
\* then come to its end, the scheduler is as it was, and the next interval
\* that elapses with no instance of the job in flight starts a run.
C35_JobNeverRaises ==
    /\ [](\A p \in Slots : run[p].raised # "none" => Done(p))
    /\ [][/\ \A p \in Slots :
                (Raised(p)' /\ ~Raised(p)) =>
                    /\ schedRunning' = schedRunning
                    /\ phase' = phase
                    /\ ~InFlight(p)'
          /\ (ticks' = ticks + 1 /\ (run["job"].pc = "idle" \/ Done("job"))) =>
                /\ run'["job"] = Entered
                /\ started' = started + 1
                /\ skipped' = skipped]_vars

\* the startup run has ended with the exception it caught, no run was in
\* flight when the interval elapsed, and the interval has started the job
C35_Witness ==
    /\ Raised("boot")
    /\ Done("boot")
    /\ ticks >= 1
    /\ ~overrun
    /\ skipped = 0
    /\ InFlight("job")

\* the positions of a run inside seed_real_historical_data after its check
InRealSeed == {"owid", "emissions", "wb", "energy", "sleep", "metadata"}

\* C36: a run that comes to the check of seed_real_historical_data while the
\* emissions collection holds a non-synthetic record of 2023 updated within
\* the last 7 days goes no further into it: no adapter call, no write to
\* emissions, energy or metadata; if the query is answered the run returns
\* there, whatever the metadata and the count were.
C36_RecentRecordSkips ==
    [][\A p \in Slots :
          (run[p].pc = "find" /\ find_one(emissions, now) /\ run'[p] # run[p]) =>
              /\ run'[p].pc \notin InRealSeed
              /\ ~run'[p].called
              /\ emissions' = emissions
              /\ energy' = energy
              /\ metadata' = metadata
              /\ faults' = faults =>
                    /\ Done(p)'
                    /\ ~run'[p].wrote
                    /\ run'[p].gate \in {"skip_recent", "none"}]_vars

\* a run has returned at the check although there is no metadata record and
\* the count was not above the threshold
C36_Witness ==
    /\ metadata = << >>
    /\ find_one(emissions, now)
    /\ \E p \in Slots :
          /\ run[p].gate = "skip_recent"
          /\ ~run[p].gateFresh
          /\ run[p].gateCount <= RealDataThreshold
          /\ Done(p)
          /\ ~run[p].called
          /\ ~run[p].wrote
============================================================================
